---------------------------- MODULE Spec2Model ----------------------------
(***************************************************************************)
(* Model of the NRK Former SP-MCTS solver.                                 *)
(*                                                                         *)
(*   board.py  the board engine: flood fill (dfs), destroy_blocks,         *)
(*             gravity (move_blocks_down), step, get_blobs, playout        *)
(*   mcts.py   Node and MCTS: select / expand / simulate / backpropagate   *)
(*   main.py   the orchestrator's choice of the shortest solution          *)
(*                                                                         *)
(* A board is a list of rows, board[y][x], indexed from 0 as in the        *)
(* source: a function from 0..h-1 to functions from 0..w-1 to cells.       *)
(* A coordinate is the pair <<x, y>>.  Python lists are mutable objects:   *)
(* an operator that models a function mutating its argument returns the    *)
(* content of that object after the call.                                  *)
(*                                                                         *)
(* Four specifications share the variables:                                *)
(*   SpecBoard  calls of step, get_blobs and playout on one board object   *)
(*   Spec       one MCTS engine running search, one step per iteration of  *)
(*              its loop                                                   *)
(*   SpecLive   Spec with the fairness of a running process, on the boards *)
(*              whose whole tree the bounded loop can build                *)
(*   SpecMain   the orchestrator's selection loop over the workers' results*)
(*                                                                         *)
(* Floating point is left out: a node's average_score and                  *)
(* square_sum_score are not carried, and where the code takes the child    *)
(* of greatest uct value the model allows any child.                       *)
(***************************************************************************)
EXTENDS Integers, Sequences, FiniteSets, TLC

\* ------------------------------------------------------------------ bounds
\* Boards of the board engine have at most MaxCells cells (all shapes w x h).
MaxCells == 4
\* Number of colours of the palette that boards are drawn from.
NumColors == 3

\* Boards given to the search engine have at most MaxSearchCells cells.
MaxSearchCells == 3
\* The search loop is cut after MaxIter iterations.
MaxIter == 9
\* selection_threshold is drawn from 1..MaxThreshold.
MaxThreshold == 2
\* The orchestrator collects the results of 1..MaxWorkers workers, each a
\* move sequence of length 0..MaxSolutionLen.
MaxWorkers == 3
MaxSolutionLen == 2

\* --------------------------------------------------------------- constants
EMPTY == " "
ALL_SYMBOLS == <<"B", "G", "P", "O">>
SYMBOLS == {ALL_SYMBOLS[i] : i \in 1..NumColors}

VARIABLES
    \* --- SpecBoard: one board object and the last call made on it
    board,        \* content of the caller's board object (a list of lists)
    board_in,     \* its content when the last call began
    board_ret,    \* the board the last call of step returned
    call,         \* the last call: [op, x, y]
    blobs_ret,    \* get_blobs' final local state: blobs, visited, board_copy, found
    play,         \* "idle", "running" (inside playout's loop) or "returned"
    n_moves,      \* playout's counter
    play_start,   \* the board playout was called with
    origin_full,  \* the behaviour's first board had no empty cell
    \* --- Spec: one MCTS object inside search
    nodes,        \* the tree: every Node created so far.  A node object is
                  \* named by its place in the tree, the sequence of child
                  \* positions leading to it from the root (the root is <<>>)
    self_board,   \* MCTS.board, the copy of the constructor's argument
    selection_threshold,
    solution_found,
    best_solution,    \* a node, or None
    pc,           \* position inside search: "loop" (at the test of line 45),
                  \* "done" (returned) or "raised"
    expired,      \* time() - t0 >= time_limit
    iter_count,
    moves,        \* the list search returns
    reached,      \* history: the terminal nodes select has returned
    first_reached,    \* history: the first of them, or None
    simulated,    \* history: how many times each node was passed to simulate
    \* --- SpecMain: the orchestrator after p.map
    solutions,
    sol_i,        \* position of the for loop in solutions
    main_best     \* main.py's best_solution

board_vars == <<board, board_in, board_ret, call, blobs_ret, play, n_moves,
                play_start, origin_full>>

search_vars == <<nodes, self_board, selection_threshold, solution_found,
                 best_solution, pc, expired, iter_count, moves, reached,
                 first_reached, simulated>>

main_vars == <<solutions, sol_i, main_best>>

vars == <<board_vars, search_vars, main_vars>>

\* ------------------------------------------------------------ board engine
Range(s) == {s[i] : i \in DOMAIN s}

Height(b) == Cardinality(DOMAIN b)       \* len(board)
Width(b) == Cardinality(DOMAIN b[0])     \* len(board[0])

is_within_bounds(b, x, y) == 0 <= y /\ y < Height(b) /\ 0 <= x /\ x < Width(b)

is_empty(b, x, y) == b[y][x] = EMPTY

\* board[-1] is the bottom row
is_terminal(b) == \A x \in 0..(Width(b) - 1) : b[Height(b) - 1][x] = EMPTY

\* the coordinates in the order of "for y ... for x ..."
ScanOrder(b) == [k \in 1..(Height(b) * Width(b)) |->
                    <<(k - 1) % Width(b), (k - 1) \div Width(b)>>]

\* Faulty variant: the filter on non-empty cells is forgotten
get_non_empty_blocks_unfiltered(b) == ScanOrder(b)

get_non_empty_blocks(b) == SelectSeq(ScanOrder(b), LAMBDA c : b[c[2]][c[1]] # EMPTY)

\* Faulty variant: the flood fill never goes left (no x - 1 call)
RECURSIVE dfs_no_left(_, _, _, _)
dfs_no_left(b, x, y, target_color) ==
    IF ~is_within_bounds(b, x, y) \/ b[y][x] # target_color
    THEN [board |-> b, cells |-> <<>>]
    ELSE LET b0 == [b EXCEPT ![y][x] = EMPTY]
             r1 == dfs_no_left(b0, x + 1, y, target_color)
             r3 == dfs_no_left(r1.board, x, y + 1, target_color)
             r4 == dfs_no_left(r3.board, x, y - 1, target_color)
         IN  [board |-> r4.board,
              cells |-> <<<<x, y>>>> \o r1.cells \o r3.cells \o r4.cells]

\* dfs mutates board and returns the list of the cells it emptied:
\* [board |-> the board after the call, cells |-> the returned list].
\* The four recursive calls run left to right, each on the board the
\* previous one left.
RECURSIVE dfs(_, _, _, _)
dfs(b, x, y, target_color) ==
    IF ~is_within_bounds(b, x, y) \/ b[y][x] # target_color
    THEN [board |-> b, cells |-> <<>>]
    ELSE LET b0 == [b EXCEPT ![y][x] = EMPTY]
             r1 == dfs(b0, x + 1, y, target_color)
             r2 == dfs(r1.board, x - 1, y, target_color)
             r3 == dfs(r2.board, x, y + 1, target_color)
             r4 == dfs(r3.board, x, y - 1, target_color)
         IN  [board |-> r4.board,
              cells |-> <<<<x, y>>>> \o r1.cells \o r2.cells \o r3.cells \o r4.cells]

\* Faulty variant: only the clicked cell is destroyed, not its component
destroy_blocks_single(b, x, y) == [b EXCEPT ![y][x] = EMPTY]

\* the loop "for x, y in dfs(...): board[y][x] = EMPTY" on the board dfs left
destroy_blocks(b, x, y) ==
    LET target_color == b[y][x]
        r == dfs(b, x, y, target_color)
    IN  [yy \in DOMAIN r.board |-> [xx \in DOMAIN r.board[yy] |->
            IF <<xx, yy>> \in Range(r.cells) THEN EMPTY ELSE r.board[yy][xx]]]

get_connected_blocks(b, x, y) == dfs(b, x, y, b[y][x])

copy_board(b) == [yy \in DOMAIN b |-> [xx \in DOMAIN b[yy] |-> b[yy][xx]]]

\* Faulty variant: the column is padded with EMPTY below the blocks
new_column_padded_below(b, j) ==
    LET col == [i \in 1..Height(b) |-> b[i - 1][j]]
        kept == SelectSeq(col, LAMBDA blk : blk # EMPTY)
    IN  kept \o [i \in 1..(Height(b) - Len(kept)) |-> EMPTY]

\* column j after gravity, top first, as a sequence 1..h
new_column(b, j) ==
    LET col == [i \in 1..Height(b) |-> b[i - 1][j]]
        kept == SelectSeq(col, LAMBDA blk : blk # EMPTY)
    IN  [i \in 1..(Height(b) - Len(kept)) |-> EMPTY] \o kept

\* Faulty variant: no gravity
move_blocks_down_none(b) == b

\* each column is read and then written back; columns do not interfere
move_blocks_down(b) ==
    [i \in DOMAIN b |-> [j \in DOMAIN b[i] |-> new_column(b, j)[i + 1]]]

\* Faulty variant: gravity is applied before the emptiness test's early return
step_gravity_always(b, x, y) ==
    IF is_empty(b, x, y) THEN move_blocks_down(b)
    ELSE move_blocks_down(destroy_blocks(b, x, y))

\* the board step returns; it is the argument object itself, mutated
step(b, x, y) ==
    IF is_empty(b, x, y) THEN b
    ELSE move_blocks_down(destroy_blocks(b, x, y))

\* get_blobs' double loop from scan position k on; st is the local state
\* [blobs, visited, board_copy, found], found being the successive values
\* of the local "blob"
RECURSIVE get_blobs_scan(_, _, _)
get_blobs_scan(b, k, st) ==
    IF k > Height(b) * Width(b) THEN st
    ELSE LET x == ScanOrder(b)[k][1]
             y == ScanOrder(b)[k][2]
         IN  IF <<x, y>> \in st.visited \/ st.board_copy[y][x] = EMPTY
             THEN get_blobs_scan(b, k + 1, st)
             ELSE LET r == get_connected_blocks(st.board_copy, x, y)
                  IN  get_blobs_scan(b, k + 1,
                        [blobs |-> Append(st.blobs, r.cells[1]),
                         visited |-> st.visited \cup Range(r.cells),
                         board_copy |-> r.board,
                         found |-> Append(st.found, r.cells)])

get_blobs_locals(b) ==
    get_blobs_scan(b, 1, [blobs |-> <<>>, visited |-> {},
                          board_copy |-> copy_board(b), found |-> <<>>])

get_blobs(b) == get_blobs_locals(b).blobs

\* --------------------------------------------------- SpecBoard: the inputs
Shapes == {s \in (1..MaxCells) \X (1..MaxCells) : s[1] * s[2] <= MaxCells}

BoardsOver(w, h, cells) == [0..(h - 1) -> [0..(w - 1) -> cells]]

\* every board of every shape, empty cells included
AllBoards == UNION {BoardsOver(s[1], s[2], SYMBOLS \cup {EMPTY}) : s \in Shapes}

IsFull(b) == \A y \in DOMAIN b : \A x \in DOMAIN b[y] : b[y][x] # EMPTY

NoCall == [op |-> "none", x |-> 0, y |-> 0]
NoBlobs == [blobs |-> <<>>, visited |-> {}, board_copy |-> <<>>, found |-> <<>>]

\* Python's None where a node is expected (no child position is 0)
None == <<0>>

\* the parts of the state a specification does not use stay at these values
BoardIdle ==
    /\ board = <<>> /\ board_in = <<>> /\ board_ret = <<>> /\ call = NoCall
    /\ blobs_ret = NoBlobs /\ play = "idle" /\ n_moves = 0
    /\ play_start = <<>> /\ origin_full = TRUE

SearchIdle ==
    /\ nodes = <<>> /\ self_board = <<>> /\ selection_threshold = 1
    /\ solution_found = FALSE /\ best_solution = None /\ pc = "idle"
    /\ expired = FALSE /\ iter_count = 0 /\ moves = <<>> /\ reached = {}
    /\ first_reached = None /\ simulated = <<>>

MainIdle == solutions = <<>> /\ sol_i = 0 /\ main_best = <<>>

BoardInit ==
    /\ SearchIdle
    /\ MainIdle
    /\ board \in AllBoards
    /\ board_in = board
    /\ board_ret = board
    /\ call = NoCall
    /\ blobs_ret = NoBlobs
    /\ play = "idle"
    /\ n_moves = 0
    /\ play_start = board
    /\ origin_full = IsFull(board)

\* Faulty variant: step works on a copy and leaves the caller's object alone
CallStep_on_copy(x, y) ==
    /\ play # "running"
    /\ is_within_bounds(board, x, y)
    /\ board_in' = board
    /\ board' = board
    /\ board_ret' = step(copy_board(board), x, y)
    /\ call' = [op |-> "step", x |-> x, y |-> y]
    /\ blobs_ret' = NoBlobs
    /\ play' = "idle"
    /\ n_moves' = 0
    /\ play_start' = board'
    /\ UNCHANGED origin_full
    /\ UNCHANGED <<search_vars, main_vars>>

\* step(board, x, y) on the object: lines 111-112 rebind "board" to what
\* destroy_blocks and move_blocks_down return, which is the object passed in
CallStep(x, y) ==
    /\ play # "running"
    /\ is_within_bounds(board, x, y)
    /\ board_in' = board
    /\ board' = step(board, x, y)
    /\ board_ret' = board'
    /\ call' = [op |-> "step", x |-> x, y |-> y]
    /\ blobs_ret' = NoBlobs
    /\ play' = "idle"
    /\ n_moves' = 0
    /\ play_start' = board'
    /\ UNCHANGED origin_full
    /\ UNCHANGED <<search_vars, main_vars>>

\* get_blobs(board): works on board_copy, the argument is only read
CallGetBlobs ==
    /\ play # "running"
    /\ board_in' = board
    /\ board_ret' = board
    /\ blobs_ret' = get_blobs_locals(board)
    /\ call' = [op |-> "get_blobs", x |-> 0, y |-> 0]
    /\ play' = "idle"
    /\ n_moves' = 0
    /\ play_start' = board
    /\ UNCHANGED <<board, origin_full>>
    /\ UNCHANGED <<search_vars, main_vars>>

\* playout(board): n_moves = 0, then the while loop
PlayoutStart ==
    /\ play # "running"
    /\ play' = "running"
    /\ n_moves' = 0
    /\ play_start' = board
    /\ board_in' = board
    /\ board_ret' = board
    /\ blobs_ret' = NoBlobs
    /\ call' = [op |-> "playout", x |-> 0, y |-> 0]
    /\ UNCHANGED <<board, origin_full>>
    /\ UNCHANGED <<search_vars, main_vars>>

\* one turn of the loop: random.choice, step, n_moves += 1
PlayoutClick ==
    /\ play = "running"
    /\ ~is_terminal(board)
    /\ \E i \in DOMAIN get_non_empty_blocks(board) :
         LET c == get_non_empty_blocks(board)[i]
         IN  board' = step(board, c[1], c[2])
    /\ board_in' = board
    /\ board_ret' = board'
    /\ n_moves' = n_moves + 1
    /\ UNCHANGED <<call, blobs_ret, play, play_start, origin_full>>
    /\ UNCHANGED <<search_vars, main_vars>>

\* the loop condition fails: return n_moves
PlayoutReturn ==
    /\ play = "running"
    /\ is_terminal(board)
    /\ play' = "returned"
    /\ UNCHANGED <<board, board_in, board_ret, call, blobs_ret, n_moves,
                   play_start, origin_full>>
    /\ UNCHANGED <<search_vars, main_vars>>

BoardNext ==
    \/ \E y \in DOMAIN board : \E x \in DOMAIN board[y] : CallStep(x, y)
    \/ CallGetBlobs
    \/ PlayoutStart
    \/ PlayoutClick
    \/ PlayoutReturn

SpecBoard == BoardInit /\ [][BoardNext]_vars

\* ----------------------------------------------------------- mcts.py: Node
Root == <<>>

\* Node.__init__.  average_score and square_sum_score are not carried: they
\* are read only by uct, whose arg-max the model replaces by a free choice
\* among the children (see selection_strategy).
Node(b, depth, parent, move) ==
    [board |-> copy_board(b), parent |-> parent, move |-> move,
     blobs |-> get_blobs(copy_board(b)), children |-> <<>>, n_visits |-> 0,
     depth |-> depth]

is_leaf(n) == Len(n.children) < Len(n.blobs)

\* -------------------------------------------------------- mcts.py: search
ColorIndex(blk) == CHOOSE i \in DOMAIN ALL_SYMBOLS : ALL_SYMBOLS[i] = blk

\* The code compares colours only for equality, so boards that differ by a
\* renaming of the colours behave alike; one board stands for each class:
\* the one whose colours first appear, in scan order, in the order of SYMBOLS.
ColorsInOrder(b) ==
    \A k \in DOMAIN ScanOrder(b) :
        LET i == ColorIndex(b[ScanOrder(b)[k][2]][ScanOrder(b)[k][1]])
        IN  i > 1 => \E m \in 1..(k - 1) :
                        ColorIndex(b[ScanOrder(b)[m][2]][ScanOrder(b)[m][1]]) = i - 1

\* the boards read_board_from_file accepts: every cell one of SYMBOLS
FullBoards ==
    {b \in UNION {BoardsOver(s[1], s[2], SYMBOLS) :
                    s \in {t \in Shapes : t[1] * t[2] <= MaxSearchCells}} :
        ColorsInOrder(b)}

\* MCTS.__init__ followed by the first lines of search (t0, node, iter_count)
Init ==
    /\ BoardIdle
    /\ MainIdle
    /\ self_board \in FullBoards
    /\ nodes = [n \in {Root} |-> Node(self_board, 0, None, <<>>)]
    /\ selection_threshold \in 1..MaxThreshold
    /\ solution_found = FALSE
    /\ best_solution = None
    /\ pc = "loop"
    /\ expired = FALSE
    /\ iter_count = 0
    /\ moves = <<>>
    /\ reached = {}
    /\ first_reached = None
    /\ simulated = [n \in {Root} |-> 0]

\* selection_strategy, lines 79-85: the children it may return.  Below the
\* threshold random.choice(node.children); otherwise the child of greatest
\* uct value, which is floating point: the model allows any child.  The
\* branch of line 75 is never taken, select calls it on non-leaf nodes only.
selection_strategy(ns, n) ==
    IF ns[n].n_visits < selection_threshold
    THEN Range(ns[n].children)
    ELSE Range(ns[n].children)

\* Faulty variant: the test of line 66 is missing, a node with a terminal
\* board and no untried blob is handed to selection_strategy
RECURSIVE select_from_no_terminal_test(_, _)
select_from_no_terminal_test(ns, n) ==
    IF is_leaf(ns[n]) THEN {n}
    ELSE UNION {select_from_no_terminal_test(ns, c) : c \in selection_strategy(ns, n)}

\* select, lines 65-72, from node n on: the nodes it may return
RECURSIVE select_from(_, _)
select_from(ns, n) ==
    IF is_leaf(ns[n]) THEN {n}
    ELSE IF is_terminal(ns[n].board) THEN {n}
    ELSE UNION {select_from(ns, c) : c \in selection_strategy(ns, n)}

select(ns) == select_from(ns, Root)

\* line 82: the (parent, child) pairs selection_strategy evaluates uct for
\* on node n, none when it takes the random.choice branch
uct_calls(ns, n) ==
    IF ns[n].n_visits < selection_threshold THEN {}
    ELSE {<<n, c>> : c \in Range(ns[n].children)}

\* the (parent, child) pairs some run of select, from node n on, evaluates
\* uct for
RECURSIVE select_uct_calls(_, _)
select_uct_calls(ns, n) ==
    IF is_leaf(ns[n]) THEN {}
    ELSE IF is_terminal(ns[n].board) THEN {}
    ELSE uct_calls(ns, n)
            \cup UNION {select_uct_calls(ns, c) : c \in selection_strategy(ns, n)}

\* Faulty variant: a terminal node of equal depth replaces the tracked one
NewBest_or_equal(ns, best, n) ==
    IF best = None \/ ns[n].depth <= ns[best].depth THEN n ELSE best

\* lines 68-69
NewBest(ns, best, n) ==
    IF best = None \/ ns[n].depth < ns[best].depth THEN n ELSE best

\* Faulty variant: the untried blobs are taken from the end of the list
expand_from_last_blob(ns, n) ==
    LET blob == ns[n].blobs[Len(ns[n].blobs) - Len(ns[n].children)]
        board_copy == step(copy_board(ns[n].board), blob[1], blob[2])
        child == Append(n, Len(ns[n].children) + 1)
    IN  [tree |-> [m \in DOMAIN ns \cup {child} |->
                     IF m = child THEN Node(board_copy, ns[n].depth + 1, n, blob)
                     ELSE IF m = n THEN [ns[n] EXCEPT !.children = Append(@, child)]
                     ELSE ns[m]],
         child |-> child]

\* expand, lines 109-115: [tree |-> the tree with the new child appended to
\* node n's children, child |-> the new node, which expand returns]
expand(ns, n) ==
    LET blob == ns[n].blobs[Len(ns[n].children) + 1]
        board_copy == step(copy_board(ns[n].board), blob[1], blob[2])
        child == Append(n, Len(ns[n].children) + 1)
    IN  [tree |-> [m \in DOMAIN ns \cup {child} |->
                     IF m = child THEN Node(board_copy, ns[n].depth + 1, n, blob)
                     ELSE IF m = n THEN [ns[n] EXCEPT !.children = Append(@, child)]
                     ELSE ns[m]],
         child |-> child]

\* node n and its ancestors up to the root
RECURSIVE Chain(_, _)
Chain(ns, n) == IF n = None THEN {} ELSE {n} \cup Chain(ns, ns[n].parent)

\* Faulty variant: the walk stops at the root without counting it
backpropagate_skip_root(ns, n) ==
    LET chain == Chain(ns, n) \ {Root}
    IN  [i \in DOMAIN ns |->
            IF i \in chain THEN [ns[i] EXCEPT !.n_visits = @ + 1] ELSE ns[i]]

\* Faulty variant: only the node and its parent are counted
backpropagate_stop_after_parent(ns, n) ==
    LET chain == {n, ns[n].parent}
    IN  [i \in DOMAIN ns |->
            IF i \in chain THEN [ns[i] EXCEPT !.n_visits = @ + 1] ELSE ns[i]]

\* Faulty variant: the walk starts at the parent of the simulated node
backpropagate_from_parent(ns, n) ==
    LET chain == Chain(ns, ns[n].parent)
    IN  [i \in DOMAIN ns |->
            IF i \in chain THEN [ns[i] EXCEPT !.n_visits = @ + 1] ELSE ns[i]]

\* backpropagate, lines 119-123: n_visits along the parent chain.  The score
\* goes only into average_score and square_sum_score, which are not carried.
backpropagate(ns, n) ==
    LET chain == Chain(ns, n)
    IN  [i \in DOMAIN ns |->
            IF i \in chain THEN [ns[i] EXCEPT !.n_visits = @ + 1] ELSE ns[i]]

\* playout(board) from a board on which n clicks were already made: the
\* outcomes random.choice allows, each [board |-> the argument object when
\* playout returns, n_moves |-> the count returned]
RECURSIVE playout(_, _)
playout(b, n) ==
    IF is_terminal(b) THEN {[board |-> b, n_moves |-> n]}
    ELSE UNION {playout(step(b, c[1], c[2]), n + 1) :
                    c \in Range(get_non_empty_blocks(b))}

\* score, lines 105-106: (1 - (n_moves - 1) / 63) * 10000 as the exact
\* fraction num / den (the code computes it in floating point)
score(n) == [num |-> (63 - (n - 1)) * 10000, den |-> 63]

\* simulate, lines 98-101, what it returns: the scores of the playouts that
\* random.choice allows on board_copy, a copy of the node's board
simulate_scores(ns, n) ==
    LET board_copy == copy_board(ns[n].board)
    IN  {score(r.n_moves + ns[n].depth) : r \in playout(board_copy, 0)}

\* Faulty variant: the playout runs on the node's board itself, not on a copy
simulate_on_node_board(ns, n) ==
    LET outcome == CHOOSE r \in playout(ns[n].board, 0) : TRUE
    IN  [ns EXCEPT ![n].board = outcome.board]

\* simulate, lines 98-101, what it leaves: the tree after the call.  The
\* playout empties board_copy, which nothing else refers to, so the tree is
\* as before.
simulate(ns, n) ==
    LET board_copy == copy_board(ns[n].board)
    IN  ns

\* the wall clock passes the deadline.  search reads the clock only at
\* line 45, so the deadline passing during an iteration is seen as passing
\* just before the next test.
Tick ==
    /\ pc = "loop"
    /\ ~expired
    /\ expired' = TRUE
    /\ UNCHANGED <<nodes, self_board, selection_threshold, solution_found,
                   best_solution, pc, iter_count, moves, reached, first_reached,
                   simulated>>
    /\ UNCHANGED <<board_vars, main_vars>>

\* line 45
LoopCondition == ~expired \/ ~solution_found

\* One turn of the loop, lines 46-51, when select returns a leaf: expand it,
\* simulate from the child, backpropagate.  The score simulate returns goes
\* only into the statistics that are not carried.
IterateExpand ==
    /\ pc = "loop"
    /\ LoopCondition
    /\ iter_count < MaxIter
    /\ \E node \in select(nodes) :
         /\ is_leaf(nodes[node])
         /\ LET e == expand(nodes, node)
            IN  /\ nodes' = backpropagate(simulate(e.tree, e.child), e.child)
                /\ simulated' = [m \in DOMAIN nodes' |->
                                    IF m \in DOMAIN nodes THEN simulated[m] ELSE 1]
    /\ iter_count' = iter_count + 1
    /\ UNCHANGED <<self_board, selection_threshold, solution_found,
                   best_solution, pc, expired, moves, reached, first_reached>>
    /\ UNCHANGED <<board_vars, main_vars>>

\* one turn of the loop when select returns at line 70, from a non-leaf node
\* with a terminal board: no expansion, simulate and backpropagate from it
IterateTerminal ==
    /\ pc = "loop"
    /\ LoopCondition
    /\ iter_count < MaxIter
    /\ \E node \in select(nodes) :
         /\ ~is_leaf(nodes[node])
         /\ solution_found' = TRUE
         /\ best_solution' = NewBest(nodes, best_solution, node)
         /\ reached' = reached \cup {node}
         /\ first_reached' = IF first_reached = None THEN node ELSE first_reached
         /\ nodes' = backpropagate(simulate(nodes, node), node)
         /\ simulated' = [simulated EXCEPT ![node] = @ + 1]
    /\ iter_count' = iter_count + 1
    /\ UNCHANGED <<self_board, selection_threshold, pc, expired, moves>>
    /\ UNCHANGED <<board_vars, main_vars>>

\* Faulty variant: the path is not reversed
RECURSIVE SolutionMoves_not_reversed(_, _)
SolutionMoves_not_reversed(ns, n) ==
    IF ns[n].parent = None THEN <<>>
    ELSE <<ns[n].move>> \o SolutionMoves_not_reversed(ns, ns[n].parent)

\* lines 54-59: walk the parent links from node n, then reverse
RECURSIVE SolutionMoves(_, _)
SolutionMoves(ns, n) ==
    IF ns[n].parent = None THEN <<>>
    ELSE Append(SolutionMoves(ns, ns[n].parent), ns[n].move)

\* line 45 false: lines 52-61.  With best_solution None line 56 raises
\* AttributeError.
LoopExit ==
    /\ pc = "loop"
    /\ ~LoopCondition
    /\ IF best_solution = None
       THEN pc' = "raised" /\ moves' = moves
       ELSE pc' = "done" /\ moves' = SolutionMoves(nodes, best_solution)
    /\ UNCHANGED <<nodes, self_board, selection_threshold, solution_found,
                   best_solution, expired, iter_count, reached, first_reached,
                   simulated>>
    /\ UNCHANGED <<board_vars, main_vars>>

Next ==
    \/ Tick
    \/ IterateExpand
    \/ IterateTerminal
    \/ LoopExit

Spec == Init /\ [][Next]_vars

\* ------------------------------------------- mcts.py: search, liveness
\* the number of nodes of the tree once expand has been called on every
\* leaf: the node of board b and, for each of its blobs, the tree of the
\* board step gives there
RECURSIVE GameTreeSize(_)
RECURSIVE GameTreeSizeFrom(_, _, _)
GameTreeSizeFrom(b, blobs, i) ==
    IF i > Len(blobs) THEN 0
    ELSE GameTreeSize(step(copy_board(b), blobs[i][1], blobs[i][2]))
            + GameTreeSizeFrom(b, blobs, i + 1)

GameTreeSize(b) == 1 + GameTreeSizeFrom(b, get_blobs(b), 1)

\* the boards whose whole tree the MaxIter turns of the loop can build, so
\* that the cut on iter_count never stops a search that has found nothing
LiveInit == Init /\ GameTreeSize(self_board) <= MaxIter

\* a turn of the loop can run: the test of line 45 succeeds and select
\* returns a node
IterateEnabled ==
    /\ pc = "loop"
    /\ LoopCondition
    /\ iter_count < MaxIter
    /\ select(nodes) # {}

\* search is one sequential loop in a running process: a turn of the loop
\* that can run does run, the clock advances, and the code after the loop
\* runs once the loop condition is false.  The second conjunct below is
\* WF_vars(IterateExpand \/ IterateTerminal) with the enabling condition of
\* a turn written out.
SpecLive ==
    /\ LiveInit
    /\ [][Next]_vars
    /\ ([]<>(~IterateEnabled) \/ []<><<IterateExpand \/ IterateTerminal>>_vars)
    /\ WF_vars(Tick)
    /\ WF_vars(LoopExit)

\* ------------------------------------------------------------- main.py
\* The workers' results are lists of (x, y) moves; two coordinates are enough
\* to tell results of equal length apart.
ResultMoves == {<<0, 0>>, <<1, 0>>}

WorkerResults == UNION {[1..n -> ResultMoves] : n \in 0..MaxSolutionLen}

\* after line 27: solutions holds one result per worker; line 29
MainInit ==
    /\ BoardIdle
    /\ SearchIdle
    /\ solutions \in UNION {[1..n -> WorkerResults] : n \in 1..MaxWorkers}
    /\ sol_i = 1
    /\ main_best = <<>>

\* Faulty variant: a later result of equal length replaces the kept one
main_choose_or_equal(best, solution) ==
    IF Len(solution) <= Len(best) \/ Len(best) = 0 THEN solution ELSE best

\* lines 33-34
main_choose(best, solution) ==
    IF Len(solution) < Len(best) \/ Len(best) = 0 THEN solution ELSE best

\* lines 31-32: an empty result is skipped
MainSkipEmpty ==
    /\ sol_i <= Len(solutions)
    /\ Len(solutions[sol_i]) = 0
    /\ sol_i' = sol_i + 1
    /\ UNCHANGED <<solutions, main_best>>
    /\ UNCHANGED <<board_vars, search_vars>>

\* lines 33-34 on a non-empty result
MainCompare ==
    /\ sol_i <= Len(solutions)
    /\ Len(solutions[sol_i]) # 0
    /\ main_best' = main_choose(main_best, solutions[sol_i])
    /\ sol_i' = sol_i + 1
    /\ UNCHANGED solutions
    /\ UNCHANGED <<board_vars, search_vars>>

MainNext ==
    \/ MainSkipEmpty
    \/ MainCompare

SpecMain == MainInit /\ [][MainNext]_vars

\* ------------------------------------------------- reference definitions
\* What the claims compare the code with; none of these is used by the model.
Cells(b) == {<<x, y>> : x \in 0..(Width(b) - 1), y \in 0..(Height(b) - 1)}

At(b, c) == b[c[2]][c[1]]

NonEmptyCells(b) == {c \in Cells(b) : At(b, c) # EMPTY}

Count(b) == Cardinality(NonEmptyCells(b))

Abs(n) == IF n < 0 THEN -n ELSE n

Adjacent(c, d) == Abs(c[1] - d[1]) + Abs(c[2] - d[2]) = 1

\* the least set containing S and closed under same-colour 4-adjacency
RECURSIVE Grow(_, _)
Grow(b, S) ==
    LET T == S \cup {d \in Cells(b) : \E c \in S : Adjacent(c, d) /\ At(b, d) = At(b, c)}
    IN  IF T = S THEN S ELSE Grow(b, T)

\* the maximal 4-connected same-colour component of cell c
Component(b, c) == Grow(b, {c})

ScanIndex(b, c) == c[2] * Width(b) + c[1]

FirstInScan(b, S) == CHOOSE c \in S : \A d \in S : ScanIndex(b, c) <= ScanIndex(b, d)

ExpectedBlobs(b) ==
    SelectSeq(ScanOrder(b),
              LAMBDA c : At(b, c) # EMPTY /\ c = FirstInScan(b, Component(b, c)))

\* the non-empty cells of column j, top first, without the cells of Gone
ColumnWithout(b, j, Gone) ==
    LET col == [i \in 1..Height(b) |-> <<j, i - 1>>]
        kept == SelectSeq(col, LAMBDA c : At(b, c) # EMPTY /\ c \notin Gone)
    IN  [i \in DOMAIN kept |-> At(b, kept[i])]

\* no empty cell lies below a non-empty one
Settled(b) ==
    \A c \in NonEmptyCells(b) :
        c[2] + 1 < Height(b) => At(b, <<c[1], c[2] + 1>>) # EMPTY

\* ------------------------------------------------------------------ claims

\* the moves ms, from position i on, each hit a non-empty cell of the board
\* they are applied to with step, and leave no non-empty cell
RECURSIVE ReplayClears(_, _, _)
ReplayClears(b, ms, i) ==
    IF i > Len(ms) THEN NonEmptyCells(b) = {}
    ELSE /\ is_within_bounds(b, ms[i][1], ms[i][2])
         /\ ~is_empty(b, ms[i][1], ms[i][2])
         /\ ReplayClears(step(b, ms[i][1], ms[i][2]), ms, i + 1)

\* C1: for an initial board without empty cells, the moves search returns,
\* applied in order with step to the initial board, hit a non-empty cell at
\* every move and end in a board with no non-empty cell; their number is the
\* depth of the tracked best_solution node.
C1_ReturnedMovesSolve ==
    pc = "done" =>
        /\ ReplayClears(self_board, moves, 1)
        /\ Len(moves) = nodes[best_solution].depth

C1_Witness ==
    /\ pc = "done"
    /\ Len(moves) = 3
    /\ moves[1] # moves[2]

\* C2 as stated: once the deadline has passed no further iteration runs,
\* whether or not a terminal node has been reached, and a search in which
\* selection never reached a terminal node returns the empty sequence.
C2_StopsAtDeadline ==
    /\ [][expired => iter_count' = iter_count]_vars
    /\ []((pc \in {"done", "raised"} /\ reached = {}) => (pc = "done" /\ moves = <<>>))

\* the state part of C4
C4_Tracked ==
    /\ (best_solution = None) <=> (reached = {})
    /\ solution_found <=> (reached # {})
    /\ best_solution # None =>
          /\ best_solution \in reached
          /\ is_terminal(nodes[best_solution].board)
          /\ NonEmptyCells(nodes[best_solution].board) = {}
          /\ \A r \in reached :
                /\ NonEmptyCells(nodes[r].board) = {}
                /\ nodes[best_solution].depth <= nodes[r].depth

\* the step part of C4
C4_Replaced ==
    /\ best_solution' # best_solution =>
          /\ iter_count' = iter_count + 1
          /\ best_solution' \in reached'
          /\ best_solution = None
                \/ nodes'[best_solution'].depth < nodes[best_solution].depth
    /\ best_solution # None =>
          /\ best_solution' # None
          /\ nodes'[best_solution'].depth <= nodes[best_solution].depth

\* C4: best_solution is None or a node with a terminal board whose depth is
\* the least among the terminal nodes selection has reached; it is replaced
\* only when selection reaches a terminal node of strictly smaller depth, so
\* on equal depth the earlier node stays and the depth never increases.
C4_BestSolutionIsShallowest == []C4_Tracked /\ [][C4_Replaced]_vars

\* a deeper terminal node was reached first and has been replaced
C4_Witness ==
    /\ best_solution # None
    /\ first_reached # best_solution
    /\ nodes[first_reached].depth > nodes[best_solution].depth

\* C3: after the loop, best_solution is the first, in worker order, of the
\* non-empty results of least length, and it is empty exactly when every
\* result is empty.
C3_ShortestNonEmptyResult ==
    sol_i > Len(solutions) =>
        LET nonempty == {i \in DOMAIN solutions : Len(solutions[i]) > 0}
            shortest == {i \in nonempty :
                           \A j \in nonempty : Len(solutions[i]) <= Len(solutions[j])}
        IN  /\ (main_best = <<>>) <=> (nonempty = {})
            /\ nonempty # {} =>
                  \E i \in shortest :
                      /\ main_best = solutions[i]
                      /\ \A j \in shortest : i <= j

C3_Witness ==
    /\ sol_i > Len(solutions)
    /\ Len(solutions) = 3
    /\ Len(solutions[1]) = 0
    /\ Len(solutions[2]) = 1
    /\ Len(solutions[3]) = 1
    /\ solutions[2] # solutions[3]
    /\ main_best = solutions[2]

\* C5: playout on a board reachable from a full board makes at most
\* (number of cells) clicks, every click removes at least one block, and the
\* count it returns is >= 0 and is 0 only if the board was terminal at the
\* start.
C5_PlayoutBounded ==
    (origin_full /\ play \in {"running", "returned"}) =>
        /\ n_moves >= 0
        /\ n_moves <= Height(play_start) * Width(play_start)
        /\ n_moves + Count(board) <= Count(play_start)
        /\ (n_moves > 0 => Count(board) < Count(board_in))
        /\ (play = "running" /\ ~is_terminal(board)
                => get_non_empty_blocks(board) # <<>>)
        /\ (play = "returned" =>
                /\ NonEmptyCells(board) = {}
                /\ (n_moves = 0 => is_terminal(play_start)))

C5_Witness ==
    /\ origin_full
    /\ play = "returned"
    /\ n_moves >= 3
    /\ Count(play_start) = 4

\* C6: get_blobs returns one coordinate per maximal 4-connected same-colour
\* component of non-empty cells, in row-major scan order, each the first cell
\* of its component in that order; the components found cover every
\* non-empty cell exactly once.
C6_BlobsPartition ==
    call.op = "get_blobs" =>
        LET blobs == blobs_ret.blobs
            found == blobs_ret.found
        IN  /\ blobs = ExpectedBlobs(board_in)
            /\ Len(found) = Len(blobs)
            /\ \A i \in DOMAIN found :
                  /\ Range(found[i]) = Component(board_in, blobs[i])
                  /\ Cardinality(Range(found[i])) = Len(found[i])
            /\ \A i, j \in DOMAIN found :
                  i # j => Range(found[i]) \cap Range(found[j]) = {}
            /\ UNION {Range(found[i]) : i \in DOMAIN found} = NonEmptyCells(board_in)
            /\ blobs_ret.visited = NonEmptyCells(board_in)

C6_Witness ==
    /\ call.op = "get_blobs"
    /\ Len(blobs_ret.blobs) = 2
    /\ \E i \in DOMAIN blobs_ret.found : Len(blobs_ret.found[i]) = 3

\* C7: on every board reachable from a full board by step calls,
\* is_terminal holds exactly when get_blobs is empty, exactly when the board
\* has no non-empty cell.
C7_TerminalIffNoBlobs ==
    origin_full =>
        /\ is_terminal(board) <=> (get_blobs(board) = <<>>)
        /\ is_terminal(board) <=> (NonEmptyCells(board) = {})

C7_Witness ==
    /\ origin_full
    /\ call.op = "step"
    /\ Height(board) >= 2
    /\ Count(board_in) > 0
    /\ is_terminal(board)

\* C8: step on an in-bounds empty cell returns a board identical cell for
\* cell to the one passed in (and leaves the argument as it was).
C8_StepOnEmptyIsNoOp ==
    (call.op = "step" /\ is_empty(board_in, call.x, call.y)) =>
        /\ board_ret = board_in
        /\ board = board_in

C8_Witness ==
    /\ call.op = "step"
    /\ is_empty(board_in, call.x, call.y)
    /\ ~Settled(board_in)
    /\ board_ret = board_in

\* C9: step on a non-empty cell returns a board with strictly fewer
\* non-empty cells: exactly the cells of the clicked cell's component are
\* gone, and every column keeps its other blocks, colours and order unchanged.
C9_StepRemovesComponent ==
    (call.op = "step" /\ ~is_empty(board_in, call.x, call.y)) =>
        LET comp == Component(board_in, <<call.x, call.y>>)
        IN  /\ Count(board_ret) < Count(board_in)
            /\ Count(board_ret) = Count(board_in) - Cardinality(comp)
            /\ Height(board_ret) = Height(board_in)
            /\ Width(board_ret) = Width(board_in)
            /\ \A j \in 0..(Width(board_in) - 1) :
                  ColumnWithout(board_ret, j, {}) = ColumnWithout(board_in, j, comp)

C9_Witness ==
    /\ call.op = "step"
    /\ ~is_empty(board_in, call.x, call.y)
    /\ Cardinality(Component(board_in, <<call.x, call.y>>)) = 3
    /\ Count(board_ret) = 1

\* C10 as stated: step leaves the board value passed in unchanged.
C10_StepLeavesArgument ==
    call.op = "step" => board = board_in

\* C10 as amended: step works in place.  After the call the board passed in
\* holds the returned board, and it is unchanged exactly when the clicked
\* cell was empty.
C10_StepWorksInPlace ==
    call.op = "step" =>
        /\ board = board_ret
        /\ (board = board_in) <=> is_empty(board_in, call.x, call.y)

C10_Witness ==
    /\ call.op = "step"
    /\ ~is_empty(board_in, call.x, call.y)
    /\ board # board_in
    /\ board = board_ret

\* C11: after k completed iterations the root's n_visits is k, and no node
\* has been counted more often than the root.
C11_RootVisitsCountIterations ==
    /\ nodes[Root].n_visits = iter_count
    /\ \A n \in DOMAIN nodes : nodes[n].n_visits <= nodes[Root].n_visits

C11_Witness ==
    /\ iter_count >= 5
    /\ nodes[Root].n_visits = iter_count
    /\ \E n \in DOMAIN nodes : nodes[n].depth = 2 /\ nodes[n].n_visits >= 2

\* the sum of n_visits over the children cs[i..]
RECURSIVE ChildVisits(_, _, _)
ChildVisits(ns, cs, i) ==
    IF i > Len(cs) THEN 0 ELSE ns[cs[i]].n_visits + ChildVisits(ns, cs, i + 1)

\* C12 as stated: every node's n_visits is the sum of its children's
\* n_visits, plus 1 if the node was ever passed to simulate and 0 otherwise.
C12_VisitsSumPlusIndicator ==
    \A n \in DOMAIN nodes :
        nodes[n].n_visits = ChildVisits(nodes, nodes[n].children, 1)
                              + (IF simulated[n] > 0 THEN 1 ELSE 0)

\* C12 as amended: every node's n_visits is the sum of its children's
\* n_visits plus the number of times the node itself was passed to simulate:
\* 0 for the root, 1 for a node with a non-terminal board, and at least 1 for
\* a node with a terminal board (once when expand created it and once more
\* each time select returned it), which has no children.
C12_VisitsSumPlusSimulations ==
    \A n \in DOMAIN nodes :
        /\ nodes[n].n_visits = ChildVisits(nodes, nodes[n].children, 1) + simulated[n]
        /\ n = Root => simulated[n] = 0
        /\ (n # Root /\ ~is_terminal(nodes[n].board)) => simulated[n] = 1
        /\ (n # Root /\ is_terminal(nodes[n].board)) =>
              simulated[n] >= 1 /\ nodes[n].children = <<>>

C12_Witness ==
    \E n \in DOMAIN nodes :
        /\ is_terminal(nodes[n].board)
        /\ nodes[n].depth = 2
        /\ simulated[n] = 3
        /\ Len(nodes[nodes[n].parent].children) = 1
        /\ Len(nodes[Root].children) = 2

\* the 2x2 board with rows "BG" and "GB"
BG_GB == [y \in 0..1 |-> [x \in 0..1 |-> IF x = y THEN "B" ELSE "G"]]

\* the boards that at most k calls of step, each on any cell, lead to from
\* the boards of S
RECURSIVE ReachIn(_, _)
ReachIn(S, k) ==
    IF k = 0 THEN S
    ELSE S \cup ReachIn(UNION {{step(b, c[1], c[2]) : c \in Cells(b)} : b \in S}, k - 1)

\* C13 as stated: from the board BG/GB a playout that has reached a terminal
\* board has made 4 clicks, no fewer.
C13_NeedsFourMoves ==
    (play \in {"running", "returned"} /\ play_start = BG_GB /\ is_terminal(board))
        => n_moves = 4

\* C13 as amended: the board BG/GB needs exactly 3 moves.  No sequence of
\* fewer than 3 step calls reaches a terminal board and some sequence of 3
\* does: two clicks on cells of one colour let gravity bring the two cells of
\* the other colour side by side, and the third click removes both.
C13_NeedsThreeMoves ==
    /\ board = BG_GB =>
          /\ \A b \in ReachIn({board}, 2) : ~is_terminal(b)
          /\ \E b \in ReachIn({board}, 3) : is_terminal(b)
    /\ (play \in {"running", "returned"} /\ play_start = BG_GB /\ is_terminal(board))
          => n_moves >= 3

C13_Witness ==
    /\ play = "returned"
    /\ play_start = BG_GB
    /\ n_moves = 3
    /\ NonEmptyCells(board) = {}

C15_UctNeverOnZeroVisits ==
    \A pr \in select_uct_calls(nodes, Root) :
        /\ nodes[pr[2]].n_visits >= 1
        /\ nodes[pr[1]].n_visits >= 1
        /\ nodes[pr[1]].n_visits >= Len(nodes[pr[1]].children)

C15_Witness ==
    /\ selection_threshold = 2
    /\ pc = "loop"
    /\ \E pr \in select_uct_calls(nodes, Root) :
          /\ pr[1] # Root
          /\ Len(nodes[pr[1]].children) = 2
          /\ nodes[pr[2]].n_visits = 1

\* C16 as stated: for every node simulate has been called on and every
\* outcome of its playout, the score of the total move count n is
\* 10000 * (1 - (n - 1) / max_moves) with max_moves the number of cells of
\* the board being searched, and one more move gives a strictly smaller score.
C16_ScoreNormalisedByCellCount ==
    LET max_moves == Height(self_board) * Width(self_board)
    IN  \A n \in DOMAIN nodes \ {Root} :
            \A r \in playout(copy_board(nodes[n].board), 0) :
                LET total == r.n_moves + nodes[n].depth
                    sc == score(total)
                    more == score(total + 1)
                IN  /\ sc \in simulate_scores(nodes, n)
                    /\ sc.num * max_moves = 10000 * (max_moves - (total - 1)) * sc.den
                    /\ more.num * sc.den < sc.num * more.den

\* the state part of C17
C17_Aligned ==
    /\ nodes[Root].depth = 0
    /\ nodes[Root].parent = None
    /\ \A n \in DOMAIN nodes :
          /\ Len(nodes[n].children) <= Len(nodes[n].blobs)
          /\ \A i \in DOMAIN nodes[n].children :
                LET c == nodes[n].children[i]
                    blob == nodes[n].blobs[i]
                IN  /\ c \in DOMAIN nodes
                    /\ nodes[c].move = blob
                    /\ nodes[c].parent = n
                    /\ nodes[c].depth = nodes[n].depth + 1
                    /\ nodes[c].board = step(copy_board(nodes[n].board), blob[1], blob[2])
          /\ \A i, j \in DOMAIN nodes[n].children :
                i # j => nodes[n].children[i] # nodes[n].children[j]

\* the step part of C17: a node keeps the children it has, in their places
C17_Kept ==
    \A n \in DOMAIN nodes :
        /\ n \in DOMAIN nodes'
        /\ Len(nodes'[n].children) >= Len(nodes[n].children)
        /\ \A i \in DOMAIN nodes[n].children :
              nodes'[n].children[i] = nodes[n].children[i]

\* C17: every node has at most as many children as blobs; its i-th child
\* has the i-th blob as move, the node as parent, the node's depth plus one
\* and the board step gives from a copy of the node's board at that blob; the
\* root has depth 0 and no parent; no child is ever removed or moved to
\* another place.
C17_ChildrenFollowBlobs == []C17_Aligned /\ [][C17_Kept]_vars

C17_Witness ==
    /\ Len(nodes[Root].children) = 3
    /\ \E n \in DOMAIN nodes :
          /\ n # Root
          /\ Len(nodes[n].children) = 2
          /\ nodes[nodes[n].children[2]].move # nodes[nodes[n].children[1]].move

\* the state part of C18: the root still holds the constructor's board, every
\* other node the board step gave from its parent's board at the node's
\* move, and a node has no blob exactly if its board has no block
C18_Snapshots ==
    /\ nodes[Root].board = self_board
    /\ IsFull(self_board)
    /\ \A n \in DOMAIN nodes \ {Root} :
          /\ nodes[n].board = step(nodes[nodes[n].parent].board,
                                   nodes[n].move[1], nodes[n].move[2])
          /\ Len(nodes[n].blobs) = 0 <=> NonEmptyCells(nodes[n].board) = {}

\* the step part of C18: no step of search changes the board or the blobs
\* of a node that exists, or the engine's copy of the constructor's board
C18_Frame ==
    /\ self_board' = self_board
    /\ \A n \in DOMAIN nodes :
          /\ n \in DOMAIN nodes'
          /\ nodes'[n].board = nodes[n].board
          /\ nodes'[n].blobs = nodes[n].blobs

C19_ReachableBoardsSettled ==
    origin_full =>
        /\ Settled(board)
        /\ Settled(board_ret)
        /\ (\A x \in 0..(Width(board) - 1) : board[Height(board) - 1][x] = EMPTY)
              => NonEmptyCells(board) = {}

\* a block that was not removed has left the top row
C19_Witness ==
    /\ origin_full
    /\ call.op = "step"
    /\ Height(board) >= 3
    /\ \E j \in 0..(Width(board) - 1) :
          /\ board_in[0][j] # EMPTY
          /\ <<j, 0>> \notin Component(board_in, <<call.x, call.y>>)
          /\ board[0][j] = EMPTY
          /\ board[Height(board) - 1][j] # EMPTY

\* the step part of C20: a turn of the loop either adds exactly one node, a
\* child of a node that had an untried blob, and leaves solution_found as it
\* was, or adds no node and has select return a node with a terminal board,
\* which sets solution_found
C20_Turn ==
    iter_count' # iter_count =>
        \/ /\ \E c \in DOMAIN nodes' \ DOMAIN nodes :
                /\ DOMAIN nodes' = DOMAIN nodes \cup {c}
                /\ is_leaf(nodes[nodes'[c].parent])
                /\ Len(nodes'[nodes'[c].parent].children)
                      = Len(nodes[nodes'[c].parent].children) + 1
           /\ solution_found' = solution_found
        \/ /\ DOMAIN nodes' = DOMAIN nodes
           /\ solution_found'
           /\ \E n \in reached' : is_terminal(nodes[n].board) /\ ~is_leaf(nodes[n])

\* C20: for an initial board without empty cells every turn of the loop is
\* of one of these two kinds; solution_found becomes true after finitely
\* many turns; search returns only when the deadline has passed and a
\* solution was found, and once both hold it does return.
C20_SearchTerminates ==
    /\ [][C20_Turn]_vars
    /\ <>solution_found
    /\ [](pc = "done" => (expired /\ solution_found))
    /\ [](pc # "raised")
    /\ (expired /\ solution_found) ~> (pc = "done")

C20_Witness ==
    /\ pc = "done"
    /\ iter_count >= 5
    /\ Cardinality(DOMAIN nodes) = 5
    /\ Cardinality(reached) = 2

=============================================================================
